---- MODULE Spec2Model ----
(***************************************************************************)
(* Glyph rasterization and page compositing of kindle-storyteller:        *)
(* glyph-extraction/extract_glyphs.py and glyph-extraction/render_page.py *)
(*                                                                         *)
(* Numbers.  Font design units and payload heights are integers.  Pixel   *)
(* floats read from the page payload (page width/height, xPosition,       *)
(* transform) are fixed-point with denominator PxDen; font sizes are      *)
(* fixed-point with denominator FsDen, finer than the three decimals of   *)
(* the cache key.  Products and quotients are exact rationals <<n, d>>    *)
(* with d > 0.  An optional payload field is <<>> (absent) or <<v>>.      *)
(***************************************************************************)
EXTENDS Integers, Sequences, FiniteSets, TLC

(* ---------------- bounds of the model ---------------- *)
\* pages in the page-data file; children of the rendered page; glyph
\* references in the children of the rendered page, all runs together
MaxPages == 1
MaxRuns == 2
MaxGlyphRefs == 3
\* glyphs in the table of a font entry handed to extract_glyphs.py
MaxEntryGlyphs == 2

(* ---------------- fixed-point resolution ---------------- *)
RoundDigits == 3
PadWidth == 4
PxDen == 2
FsDen == 10000
KeyDen == FsDen \div (10 ^ RoundDigits)

(* ---------------- arithmetic helpers ---------------- *)
Min(a, b) == IF a <= b THEN a ELSE b
Max(a, b) == IF a >= b THEN a ELSE b

FloorDiv(n, d) == IF n >= 0 THEN n \div d ELSE -((-n + d - 1) \div d)

\* Python round(): n/d (d > 0) to the nearest integer, ties to the even one.
PyRound(n, d) ==
    LET q == FloorDiv(n, d)
        r == n - q * d
    IN  IF 2 * r < d THEN q
        ELSE IF 2 * r > d THEN q + 1
        ELSE IF q % 2 = 0 THEN q ELSE q + 1

\* round(font_size, 3): font size in 1/FsDen, result in 1/FsDen, a multiple
\* of KeyDen = FsDen / 10^RoundDigits.
Round3(fs) == PyRound(fs, KeyDen) * KeyDen

(* ---------------- the font payload (glyphs.json) ---------------- *)
FontKeys == {"F1", "F2", "F3"}
GlyphIds == {"g1", "g2"}

\* svgpathtools.parse_path + Path.bbox on the path strings of the model:
\*   "sq"      a square, bbox x 0..10, y 0..10
\*   "desc"    an outline with a descender and a left overshoot
\*   "bad"     a string parse_path raises on
\*   "nobbox"  a string that parses to an empty path: bbox() raises ValueError
\*   ""        the empty string
\*   "dot"     a segment from a point to itself: a bounding box of no area
\*   "flat"    a horizontal segment: a bounding box of no height
ParseOk(path_data) == path_data \in {"sq", "desc", "nobbox", "dot", "flat"}
BBoxOk(path_data) == path_data \in {"sq", "desc", "dot", "flat"}
BBox(path_data) ==
    IF path_data = "sq" THEN [xmin |-> 0, xmax |-> 10, ymin |-> 0, ymax |-> 10]
    ELSE IF path_data = "dot" THEN [xmin |-> 5, xmax |-> 5, ymin |-> 5, ymax |-> 5]
    ELSE IF path_data = "flat" THEN [xmin |-> 0, xmax |-> 10, ymin |-> 3, ymax |-> 3]
    ELSE [xmin |-> -1, xmax |-> 8, ymin |-> -4, ymax |-> 6]

PSq == [type |-> "path", path |-> "sq", advanceWidth |-> <<10>>]
PDesc == [type |-> "path", path |-> "desc", advanceWidth |-> <<>>]
PBad == [type |-> "path", path |-> "bad", advanceWidth |-> <<8>>]
PNoBBox == [type |-> "path", path |-> "nobbox", advanceWidth |-> <<8>>]
PEmpty == [type |-> "path", path |-> "", advanceWidth |-> <<8>>]
PText == [type |-> "text", path |-> "sq", advanceWidth |-> <<8>>]
PDot == [type |-> "path", path |-> "dot", advanceWidth |-> <<0>>]
PFlat == [type |-> "path", path |-> "flat", advanceWidth |-> <<>>]
PNegAdv == [type |-> "path", path |-> "sq", advanceWidth |-> <<-3>>]

\* two contents of glyphs.json.  In the first, F1 and F2 have outlines with
\* and without a descender and F2 has a glyph that is no path; in the second,
\* F1 has an outline that does not parse, F2 one that has no bounding box and
\* one that is empty.  F3 has no outline with a bounding box in either.
SoundFonts ==
    [ F1 |-> [fontKey |-> "F1", height |-> <<20>>,
              glyphs |-> [g1 |-> PSq, g2 |-> PDesc]],
      F2 |-> [fontKey |-> "F2", height |-> <<>>,
              glyphs |-> [g1 |-> PDesc, g2 |-> PText]],
      F3 |-> [fontKey |-> "F3", height |-> <<20>>,
              glyphs |-> [g1 |-> PBad, g2 |-> PText]] ]
FontsData ==
    { SoundFonts,
      [ F1 |-> [fontKey |-> "F1", height |-> <<0>>,
                glyphs |-> [g1 |-> PSq, g2 |-> PBad]],
        F2 |-> [fontKey |-> "F2", height |-> <<-5>>,
                glyphs |-> [g1 |-> PNoBBox, g2 |-> PEmpty, g3 |-> PSq]],
        F3 |-> [fontKey |-> "F3", height |-> <<>>,
                glyphs |-> [g1 |-> PNoBBox, g2 |-> PEmpty]] ] }

(* ---------------- extract_glyphs.py ---------------- *)
\* FontMetrics properties
unit_height(m) == m.max_y - m.min_y
baseline_units(m) == -m.min_y
\* scale: the rational <<n, d>>
scale(m) == IF unit_height(m) = 0 THEN <<1, 1>> ELSE <<m.height_px, unit_height(m)>>
\* unit_to_px(target_height), target in 1/FsDen: the rational <<n, d>>
unit_to_px(m, target) ==
    IF unit_height(m) = 0 THEN <<1, 1>> ELSE <<target, unit_height(m) * FsDen>>

\* the glyph ids iter_glyph_specs yields a GlyphSpec for
CatalogIds(entry) ==
    { g \in DOMAIN entry.glyphs :
        /\ entry.glyphs[g].type = "path"
        /\ entry.glyphs[g].path # "" }

iter_glyph_specs(entry) ==
    [ g \in CatalogIds(entry) |->
        [ font_key |-> entry.fontKey,
          glyph_id |-> g,
          advance_width |-> IF entry.glyphs[g].advanceWidth = <<>> THEN 0
                            ELSE entry.glyphs[g].advanceWidth[1],
          path_data |-> entry.glyphs[g].path ] ]

\* the glyphs build_font_metrics takes a bounding box from
MetricIds(entry) ==
    { g \in DOMAIN entry.glyphs :
        /\ entry.glyphs[g].type = "path"
        /\ entry.glyphs[g].path # ""
        /\ ParseOk(entry.glyphs[g].path)
        /\ BBoxOk(entry.glyphs[g].path) }

SetMin(S) == CHOOSE x \in S : \A y \in S : x <= y
SetMax(S) == CHOOSE x \in S : \A y \in S : x >= y

\* build_font_metrics keeping a payload height of 0
build_font_metrics_KeepZero(entry) ==
    LET ids == MetricIds(entry)
        lo == SetMin({ BBox(entry.glyphs[g].path).ymin : g \in ids })
        hi == SetMax({ BBox(entry.glyphs[g].path).ymax : g \in ids })
        h == IF entry.height = <<>> THEN 0 ELSE entry.height[1]
    IN  IF ids = {} THEN <<>>
        ELSE << [ font_key |-> entry.fontKey, min_y |-> lo, max_y |-> hi,
                  height_px |-> IF h < 0 THEN hi - lo ELSE h ] >>

\* build_font_metrics: <<>> for None, else <<FontMetrics>>
build_font_metrics(entry) ==
    LET ids == MetricIds(entry)
        lo == SetMin({ BBox(entry.glyphs[g].path).ymin : g \in ids })
        hi == SetMax({ BBox(entry.glyphs[g].path).ymax : g \in ids })
        h == IF entry.height = <<>> THEN 0 ELSE entry.height[1]
    IN  IF ids = {} THEN <<>>
        ELSE << [ font_key |-> entry.fontKey, min_y |-> lo, max_y |-> hi,
                  height_px |-> IF h <= 0 THEN hi - lo ELSE h ] >>

\* render_glyph, when it returns: the metadata of the manifest
render_glyph(glyph, metrics) ==
    LET bb == BBox(glyph.path_data)
        translate_x == -Min(0, bb.xmin)
        translate_y == -metrics.min_y
        xmax_shifted == bb.xmax + translate_x
        canvas_width_units == Max(glyph.advance_width, xmax_shifted)
        canvas_height_units == unit_height(metrics)
        sc == scale(metrics)
    IN  [ font_key |-> glyph.font_key,
          glyph_id |-> glyph.glyph_id,
          advance_width_units |-> glyph.advance_width,
          canvas_width_units |-> canvas_width_units,
          canvas_height_units |-> canvas_height_units,
          canvas_width_px |-> Max(PyRound(canvas_width_units * sc[1], sc[2]), 1),
          canvas_height_px |-> Max(PyRound(metrics.height_px, 1), 1),
          translate_x |-> translate_x,
          translate_y |-> translate_y ]

(* ---------------- render_page.py: load_fonts, rasterize_glyph ---------------- *)
\* load_fonts: the font entries build_font_metrics returns a FontMetrics for
UsableEntries(fd) == { e \in { fd[k] : k \in DOMAIN fd } : build_font_metrics(e) # <<>> }
EntryOf(fd, fk) == CHOOSE e \in UsableEntries(fd) : e.fontKey = fk

\* load_fonts: metrics_map
LoadMetrics(fd) ==
    [ fk \in { e.fontKey : e \in UsableEntries(fd) } |->
        build_font_metrics(EntryOf(fd, fk))[1] ]

\* load_fonts with the catalog built before the metrics are looked at
LoadGlyphMap_AllFonts(fd) ==
    [ fk \in { fd[k].fontKey : k \in DOMAIN fd } |->
        iter_glyph_specs(CHOOSE e \in { fd[k] : k \in DOMAIN fd } : e.fontKey = fk) ]

\* load_fonts: glyph_map
LoadGlyphMap(fd) ==
    [ fk \in { e.fontKey : e \in UsableEntries(fd) } |->
        iter_glyph_specs(EntryOf(fd, fk)) ]

\* rasterize_glyph raises when parse_path or Path.bbox raises
RasterizeRaises(spec) == ~(ParseOk(spec.path_data) /\ BBoxOk(spec.path_data))

\* rasterize_glyph shifting each glyph by its own lowest point
rasterize_glyph_OwnYMin(spec, metrics, font_size) ==
    LET bb == BBox(spec.path_data)
        translate_x == -Min(0, bb.xmin)
        translate_y == -bb.ymin
        u == unit_to_px(metrics, font_size)
        image == [ font_key |-> spec.font_key, glyph_id |-> spec.glyph_id,
                   path_data |-> spec.path_data,
                   canvas_width_units |-> Max(spec.advance_width, bb.xmax + translate_x),
                   canvas_height_units |-> unit_height(metrics),
                   translate_x |-> translate_x, translate_y |-> translate_y,
                   width_px |-> Max(PyRound(Max(spec.advance_width,
                                                bb.xmax + translate_x) * u[1], u[2]), 1),
                   height_px |-> Max(PyRound(unit_height(metrics) * u[1], u[2]), 1) ]
    IN  [ image |-> image,
          mask |-> "ImageOps.invert(image)",
          baseline_px |-> <<translate_y * u[1], u[2]>>,
          font_size |-> font_size ]

\* rasterize_glyph with the canvas size as rounded
rasterize_glyph_NoClamp(spec, metrics, font_size) ==
    LET bb == BBox(spec.path_data)
        translate_x == -Min(0, bb.xmin)
        translate_y == baseline_units(metrics)
        u == unit_to_px(metrics, font_size)
        image == [ font_key |-> spec.font_key, glyph_id |-> spec.glyph_id,
                   path_data |-> spec.path_data,
                   canvas_width_units |-> Max(spec.advance_width, bb.xmax + translate_x),
                   canvas_height_units |-> unit_height(metrics),
                   translate_x |-> translate_x, translate_y |-> translate_y,
                   width_px |-> PyRound(Max(spec.advance_width,
                                            bb.xmax + translate_x) * u[1], u[2]),
                   height_px |-> PyRound(unit_height(metrics) * u[1], u[2]) ]
    IN  [ image |-> image,
          mask |-> "ImageOps.invert(image)",
          baseline_px |-> <<translate_y * u[1], u[2]>>,
          font_size |-> font_size ]

\* rasterize_glyph, when it returns: the GlyphRender.  The image is described
\* by what was drawn and the canvas it was drawn on; the mask is a function of it.
rasterize_glyph(spec, metrics, font_size) ==
    LET bb == BBox(spec.path_data)
        translate_x == -Min(0, bb.xmin)
        translate_y == baseline_units(metrics)
        xmax_shifted == bb.xmax + translate_x
        canvas_width_units == Max(spec.advance_width, xmax_shifted)
        canvas_height_units == unit_height(metrics)
        u == unit_to_px(metrics, font_size)
        canvas_width_px == Max(PyRound(canvas_width_units * u[1], u[2]), 1)
        canvas_height_px == Max(PyRound(canvas_height_units * u[1], u[2]), 1)
        image == [ font_key |-> spec.font_key, glyph_id |-> spec.glyph_id,
                   path_data |-> spec.path_data,
                   canvas_width_units |-> Max(spec.advance_width, bb.xmax + translate_x),
                   canvas_height_units |-> unit_height(metrics),
                   translate_x |-> translate_x, translate_y |-> translate_y,
                   width_px |-> canvas_width_px, height_px |-> canvas_height_px ]
    IN  [ image |-> image,
          mask |-> "ImageOps.invert(image)",
          baseline_px |-> <<translate_y * u[1], u[2]>>,
          font_size |-> font_size ]

(* ---------------- render_page.py: render_page ---------------- *)
\* only glyphs.json is looked for
FilesMissing_GlyphsOnly(g_exists, p_exists) == ~g_exists
FilesMissing(g_exists, p_exists) == ~g_exists \/ ~p_exists

\* page_index >= len(page_data) raises; page_data[page_index] raises below -len
IndexRaises(idx, n) == idx >= n \/ idx < -n
\* the list element page_data[page_index] selects (negative counts from the end)
SelectedPage(idx, n) == IF idx >= 0 THEN idx ELSE n + idx

\* int(round(float(page.get(name, 0))))
PageDim(field) == PyRound(IF field = <<>> THEN 0 ELSE field[1], PxDen)
\* both dimensions must be bad
DimsInvalid_Both(width, height) == width <= 0 /\ height <= 0
DimsInvalid(width, height) == width <= 0 \/ height <= 0

\* padding with the first element
PadX_First(xs, n) ==
    IF Len(xs) < n
    THEN xs \o [ i \in 1..(n - Len(xs)) |-> xs[1] ]
    ELSE xs

\* lines 122-125: pad x_positions with its last element
PadX(xs, n) ==
    IF Len(xs) < n
    THEN xs \o [ i \in 1..(n - Len(xs)) |-> xs[Len(xs)] ]
    ELSE xs

\* transform[4], transform[5], 0.0 when the list is too short (0-based)
XOffset(transform) == IF Len(transform) > 4 THEN transform[5] ELSE 0
YOffset(transform) == IF Len(transform) > 5 THEN transform[6] ELSE 0
DefaultTransform == <<PxDen, 0, 0, PxDen, 0, 0>>

\* float(run.get("fontSize", metrics.height_px)), in 1/FsDen
RunFontSize(r, metrics) ==
    IF r.fontSize = <<>> THEN metrics.height_px * FsDen ELSE r.fontSize[1]

\* a key with the font size as given
CacheKey_Exact(spec, font_size) == <<spec.font_key, spec.glyph_id, font_size>>
\* line 138: (font_key, glyph_id, round(font_size, 3))
CacheKey(spec, font_size) == <<spec.font_key, spec.glyph_id, Round3(font_size)>>
\* a lookup that never hits
CacheGet_Miss(cache, key) == <<>>
\* glyph_cache.get(key): <<>> for None
CacheGet(cache, key) == IF key \in DOMAIN cache THEN <<cache[key]>> ELSE <<>>
CachePut(cache, key, render) ==
    [ k \in DOMAIN cache \cup {key} |-> IF k = key THEN render ELSE cache[k] ]

\* the bitmap svg2png draws for a GlyphRender: the value of the pixel in
\* column i, row j (from 0).  The viewBox of canvas_width_units by
\* canvas_height_units is stretched over width_px by height_px pixels; the
\* outline, translated, fills its bounding box in black (0) on white (255); a
\* pixel the box covers in part is grey.  A viewBox without area draws nothing.
ImageAt(image, i, j) ==
    LET bb == BBox(image.path_data)
        cwu == image.canvas_width_units
        chu == image.canvas_height_units
        x0 == (bb.xmin + image.translate_x) * image.width_px
        x1 == (bb.xmax + image.translate_x) * image.width_px
        y0 == (bb.ymin + image.translate_y) * image.height_px
        y1 == (bb.ymax + image.translate_y) * image.height_px
        offx == (i + 1) * cwu <= x0 \/ x1 <= i * cwu
        offy == (j + 1) * chu <= y0 \/ y1 <= j * chu
        fullx == x0 <= i * cwu /\ (i + 1) * cwu <= x1
        fully == y0 <= j * chu /\ (j + 1) * chu <= y1
    IN  IF cwu <= 0 \/ chu <= 0 THEN 255
        ELSE IF offx \/ offy THEN 255
        ELSE IF fullx /\ fully THEN 0
        ELSE 128

\* a mask that is the image itself
Invert_Identity(v) == v
\* ImageOps.invert on a pixel of mode "L"
Invert(v) == 255 - v
\* mask = ImageOps.invert(image)
MaskAt(render, i, j) == Invert(ImageAt(render.image, i, j))

\* the pixels of the page a paste covers
Covers(paste, x, y) ==
    /\ paste.left <= x
    /\ x < paste.left + paste.render.image.width_px
    /\ paste.top <= y
    /\ y < paste.top + paste.render.image.height_px

\* canvas.paste(render.image, (left, top), render.mask) at one pixel of the
\* page: the image where the mask is 255, the canvas where it is 0, in
\* between a mix of the two
PasteAt(old, paste, x, y) ==
    IF Covers(paste, x, y)
    THEN LET v == ImageAt(paste.render.image, x - paste.left, y - paste.top)
             m == Invert(v)
         IN  IF m = 255 THEN v
             ELSE IF m = 0 THEN old
             ELSE (v * m + old * (255 - m)) \div 255
    ELSE old

\* the page canvas after the first n pastes, at one pixel: white, then the
\* pastes in order
RECURSIVE CanvasAt(_, _, _, _)
CanvasAt(pastes, n, x, y) ==
    IF n = 0 THEN 255
    ELSE PasteAt(CanvasAt(pastes, n - 1, x, y), pastes[n], x, y)

\* f"page_{page_index:04d}.png": the decimal digits of the index, padded with
\* zeros to PadWidth characters, the sign of a negative index counted
DigitChars == << "0", "1", "2", "3", "4", "5", "6", "7", "8", "9" >>
RECURSIVE Digits(_)
Digits(n) ==
    IF n < 10 THEN << DigitChars[n + 1] >>
    ELSE Digits(n \div 10) \o << DigitChars[(n % 10) + 1] >>
ZeroPad(ds, w) == [ i \in 1..(w - Len(ds)) |-> "0" ] \o ds
Format04d(n) ==
    IF n >= 0 THEN ZeroPad(Digits(n), PadWidth)
    ELSE << "-" >> \o ZeroPad(Digits(-n), PadWidth - 1)
PageFileName(idx) == << "page_" >> \o Format04d(idx) \o << ".png" >>

\* int(round(x_offset + float(x_pos))), pixel floats in 1/PxDen
PasteLeft(x_offset, x_pos) == PyRound(x_offset + x_pos, PxDen)
\* int(round(y_offset - render.baseline_px))
PasteTop(y_offset, baseline_px) ==
    PyRound(y_offset * baseline_px[2] - PxDen * baseline_px[1],
            PxDen * baseline_px[2])

(* ---------------- the page payload (page_data_0_5.json) ---------------- *)
\* values of a page's width and height, in 1/PxDen
PageDims == { <<>>, <<0>>, <<1>>, <<-3>>, <<100>> }

\* xPosition lists: n anchors, in 1/PxDen
XSeq(n) == [ i \in 1..n |-> 1 + 11 * (i - 1) ]
GlyphSeqs(n) == UNION { [1..k -> GlyphIds] : k \in 0..n }
\* transform and fontSize of a run: both absent; or a translation by
\* (1.5, 10.5) with fontSize 0, 6.9996 or 7.0 (in 1/FsDen)
Styles ==
    { [transform |-> <<>>, fontSize |-> <<>>] } \cup
    { [transform |-> << <<PxDen, 0, 0, PxDen, 3, 21>> >>, fontSize |-> <<fs>>] :
        fs \in {0, 69996, 70000} }
RunFontKeys == { <<fk>> : fk \in FontKeys }

NonRun == [ type |-> "image" ]
\* a run without a fontKey
KeylessRun ==
    [ type |-> "run", fontKey |-> <<>>, glyphs |-> <<"g1">>, xPosition |-> XSeq(1),
      transform |-> <<>>, fontSize |-> <<>> ]
\* the runs with at most n glyph references and no more x-positions than glyphs
Runs(n) ==
    { [ type |-> "run", fontKey |-> fk, glyphs |-> gk[1], xPosition |-> XSeq(gk[2]),
        transform |-> st.transform, fontSize |-> st.fontSize ] :
        fk \in RunFontKeys,
        gk \in { p \in GlyphSeqs(n) \X (0..n) : p[2] <= Len(p[1]) },
        st \in Styles }
\* a run with an x-position and no glyph
GlyphlessRun ==
    [ type |-> "run", fontKey |-> <<"F1">>, glyphs |-> <<>>, xPosition |-> XSeq(1),
      transform |-> <<>>, fontSize |-> <<>> ]
Children(n) ==
    { NonRun, GlyphlessRun } \cup { r \in {KeylessRun} : n >= 1 } \cup Runs(n)

(* ---------------- state ---------------- *)
VARIABLES
    glyphs_exists,      \* extract_root/glyphs.json exists
    page_data_exists,   \* extract_root/page_data_0_5.json exists
    fonts_data,         \* content of glyphs.json: font key -> font entry
    num_pages,          \* len(page_data)
    page_index,         \* the argument
    pc,                 \* position in render_page
    error,              \* the exception render_page raised, "" for none
    metrics_map,
    glyph_map,
    page,               \* the selected page's width and height fields
    canvas,             \* the pastes made on the page canvas, in order
    glyph_cache,
    children_read,      \* children of the page the loop has taken so far
    run,                \* the child at hand, and the run's locals
    glyph_refs,         \* glyph references in the children taken so far
    gi,                 \* index of the glyph at hand in zip(glyphs, x_positions)
    raster_log,         \* the rasterize_glyph calls made, in order
    effects,            \* side effects so far
    output_path,        \* name of the image file written, <<>> for none
    \* a font entry on its way through extract_glyphs.py
    font_entry,         \* the entry of glyphs.json at hand
    lib_pc,             \* position in the loop body over the font entries
    entry_metrics,      \* what build_font_metrics returned: <<>> or <<FontMetrics>>
    entry_specs,        \* what iter_glyph_specs yielded: glyph id -> GlyphSpec
    glyph_image,        \* the last glyph rendered: the call and what it returned
    \* kindle-api/scripts/set_reading_position.py
    args,               \* the command line: dry_run, url, pos, timestamp
    raw,                \* the captured request file, by what the script finds in it
    curl_installed,     \* subprocess.run can start curl
    script_pc,          \* position in main
    exit_code,          \* <<>> while running, else the exit status
    parsed,             \* what parse_last_read returned
    url,
    temp_files,         \* the payload files written, in order
    curl_cmd,           \* the command prepared for the set-position request
    curl_runs           \* the curl processes run, in order, with their return codes

fonts_vars == << font_entry, lib_pc, entry_metrics, entry_specs, glyph_image >>
replay_vars == << args, raw, curl_installed, script_pc, exit_code, parsed, url,
                  temp_files, curl_cmd, curl_runs >>
lib_vars == << fonts_vars, replay_vars >>

render_vars == << glyphs_exists, page_data_exists, fonts_data, num_pages, page_index,
           pc, error, metrics_map, glyph_map, page, canvas, glyph_cache,
           children_read, glyph_refs, run, gi, raster_log, effects, output_path >>

vars == << render_vars, lib_vars >>

inputs == << glyphs_exists, page_data_exists, fonts_data, num_pages, page_index >>

EmptyMap == [ k \in {} |-> 0 ]
NoRun == [ type |-> "none" ]
NoPage == [ read |-> FALSE ]
NoEntry == [ fontKey |-> "" ]
NoImage == [ fn |-> "" ]

\* no font entry is on its way through extract_glyphs.py
FontsIdle ==
    /\ font_entry = NoEntry
    /\ lib_pc = "idle"
    /\ entry_metrics = <<>>
    /\ entry_specs = EmptyMap
    /\ glyph_image = NoImage

\* the replay script is not running
ReplayIdle ==
    /\ args = [ dry_run |-> FALSE ]
    /\ raw = [ xml |-> "none" ]
    /\ curl_installed = FALSE
    /\ script_pc = "idle"
    /\ exit_code = <<>>
    /\ parsed = <<>>
    /\ url = ""
    /\ temp_files = <<>>
    /\ curl_cmd = <<>>
    /\ curl_runs = <<>>

Init ==
    /\ FontsIdle
    /\ ReplayIdle
    /\ glyphs_exists \in BOOLEAN
    /\ page_data_exists \in BOOLEAN
    /\ fonts_data \in FontsData
    /\ num_pages \in {0, MaxPages}
    /\ page_index \in {-MaxPages - 1, -1, 0, MaxPages}
    /\ pc = "start"
    /\ error = ""
    /\ metrics_map = EmptyMap
    /\ glyph_map = EmptyMap
    /\ page = NoPage
    /\ canvas = <<>>
    /\ glyph_cache = EmptyMap
    /\ children_read = 0
    /\ glyph_refs = 0
    /\ run = NoRun
    /\ gi = 0
    /\ raster_log = <<>>
    /\ effects = {}
    /\ output_path = <<>>

\* every failure raised as the same kind
Raise_OneKind(kind) ==
    /\ pc' = "failed"
    /\ error' = "ValueError"

\* raise <kind>(...): nothing in render_page catches it
Raise(kind) ==
    /\ pc' = "failed"
    /\ error' = kind

\* lines 85-91
CheckFiles ==
    /\ pc = "start"
    /\ IF FilesMissing(glyphs_exists, page_data_exists)
       THEN Raise("FileNotFoundError")
       ELSE pc' = "load_fonts" /\ error' = error
    /\ UNCHANGED << lib_vars, inputs, output_path, metrics_map, glyph_map, page, canvas, glyph_cache,
                    children_read, glyph_refs, run, gi, raster_log, effects >>

\* line 93
LoadFonts ==
    /\ pc = "load_fonts"
    /\ metrics_map' = LoadMetrics(fonts_data)
    /\ glyph_map' = LoadGlyphMap(fonts_data)
    /\ effects' = effects \cup {"fonts_loaded"}
    /\ pc' = "read_page"
    /\ UNCHANGED << lib_vars, inputs, output_path, error, page, canvas, glyph_cache, children_read,
                    glyph_refs, run, gi, raster_log >>

\* lines 95-98
ReadPage ==
    /\ pc = "read_page"
    /\ IF IndexRaises(page_index, num_pages)
       THEN /\ Raise("IndexError")
            /\ page' = page
            /\ effects' = effects \cup {"page_data_read"}
       ELSE /\ \E w \in PageDims, h \in PageDims :
                 page' = [ read |-> TRUE, width |-> w, height |-> h,
                           index |-> SelectedPage(page_index, num_pages) ]
            /\ effects' = effects \cup {"page_data_read", "page_selected"}
            /\ pc' = "check_dims"
            /\ error' = error
    /\ UNCHANGED << lib_vars, inputs, output_path, metrics_map, glyph_map, canvas, glyph_cache,
                    children_read, glyph_refs, run, gi, raster_log >>

\* lines 100-106
CheckDims ==
    /\ pc = "check_dims"
    /\ IF DimsInvalid(PageDim(page.width), PageDim(page.height))
       THEN /\ Raise("ValueError")
            /\ effects' = effects
       ELSE /\ effects' = effects \cup {"canvas_allocated"}
            /\ pc' = "children"
            /\ error' = error
    /\ UNCHANGED << lib_vars, inputs, output_path, metrics_map, glyph_map, page, canvas, glyph_cache,
                    children_read, glyph_refs, run, gi, raster_log >>

\* line 108: the loop takes the next child of the page
FetchChild ==
    /\ pc = "children"
    /\ children_read < MaxRuns
    /\ \E c \in Children(MaxGlyphRefs - glyph_refs) :
         /\ run' = [ type |-> "child", child |-> c ]
         /\ glyph_refs' = glyph_refs + (IF c.type = "run" THEN Len(c.glyphs) ELSE 0)
    /\ children_read' = children_read + 1
    /\ pc' = "run_head"
    /\ UNCHANGED << lib_vars, inputs, output_path, error, metrics_map, glyph_map, page, canvas,
                    glyph_cache, gi, raster_log, effects >>

\* a run without glyphs or x-positions is not passed over
SkipsChild_EmptyRunKept(c, mm) ==
    \/ c.type # "run"
    \/ c.fontKey = <<>>
    \/ c.fontKey[1] \notin DOMAIN mm

\* the conditions of lines 109-120 under which the child is passed over
SkipsChild(c, mm) ==
    \/ c.type # "run"
    \/ c.fontKey = <<>>
    \/ c.fontKey[1] \notin DOMAIN mm
    \/ c.glyphs = <<>>
    \/ c.xPosition = <<>>

\* lines 116-132: the locals of a run that is composited
RunLocals(c, mm, gm) ==
    LET fk == c.fontKey[1]
        t == IF c.transform = <<>> THEN DefaultTransform ELSE c.transform[1]
    IN  [ type |-> "run",
          child |-> c,
          font_key |-> fk,
          glyphs |-> c.glyphs,
          x_positions |-> PadX(c.xPosition, Len(c.glyphs)),
          x_offset |-> XOffset(t),
          y_offset |-> YOffset(t),
          font_size |-> RunFontSize(c, mm[fk]) ]

\* lines 109-132
RunHead ==
    /\ pc = "run_head"
    /\ IF SkipsChild(run.child, metrics_map)
       THEN /\ run' = NoRun
            /\ gi' = gi
            /\ pc' = "children"
       ELSE /\ run' = RunLocals(run.child, metrics_map, glyph_map)
            /\ gi' = 1
            /\ pc' = "glyphs"
    /\ UNCHANGED << lib_vars, inputs, output_path, error, metrics_map, glyph_map, page, canvas,
                    glyph_cache, children_read, glyph_refs, raster_log, effects >>

\* a call rasterize_glyph(spec, metrics, font_size), as raster_log records it
RasterCall(spec, font_size) ==
    [ font_key |-> spec.font_key, glyph_id |-> spec.glyph_id, font_size |-> font_size ]

\* number of pairs zip(glyphs, x_positions) yields
ZipLen(r) == Min(Len(r.glyphs), Len(r.x_positions))

\* after the pair at hand: the next pair, or the next child
Advance ==
    IF gi < ZipLen(run)
    THEN gi' = gi + 1 /\ run' = run /\ pc' = "glyphs"
    ELSE gi' = 0 /\ run' = NoRun /\ pc' = "children"

\* lines 134-147: one pair of zip(glyphs, x_positions)
GlyphStep ==
    /\ pc = "glyphs"
    /\ LET glyph_specs == IF run.font_key \in DOMAIN glyph_map
                          THEN glyph_map[run.font_key] ELSE EmptyMap
           glyph_id == run.glyphs[gi]
           x_pos == run.x_positions[gi]
       IN  IF glyph_id \notin DOMAIN glyph_specs
           THEN /\ Advance
                /\ UNCHANGED << error, canvas, glyph_cache, raster_log >>
           ELSE LET spec == glyph_specs[glyph_id]
                    metrics == metrics_map[run.font_key]
                    key == CacheKey(spec, run.font_size)
                    hit == CacheGet(glyph_cache, key)
                IN  IF hit = <<>> /\ RasterizeRaises(spec)
                    THEN /\ Raise("RasterizeError")
                         /\ raster_log' = Append(raster_log, RasterCall(spec, run.font_size))
                         /\ UNCHANGED << canvas, glyph_cache, run, gi >>
                    ELSE LET render == IF hit = <<>>
                                       THEN rasterize_glyph(spec, metrics, run.font_size)
                                       ELSE hit[1]
                         IN  /\ raster_log' = IF hit = <<>>
                                              THEN Append(raster_log,
                                                          RasterCall(spec, run.font_size))
                                              ELSE raster_log
                             /\ glyph_cache' = IF hit = <<>>
                                               THEN CachePut(glyph_cache, key, render)
                                               ELSE glyph_cache
                             /\ canvas' = Append(canvas,
                                    [ child_no |-> children_read, idx |-> gi,
                                      left |-> PasteLeft(run.x_offset, x_pos),
                                      top |-> PasteTop(run.y_offset, render.baseline_px),
                                      font_key |-> spec.font_key,
                                      glyph_id |-> spec.glyph_id,
                                      font_size |-> run.font_size,
                                      y_offset |-> run.y_offset,
                                      render |-> render ])
                             /\ error' = error
                             /\ Advance
    /\ UNCHANGED << lib_vars, inputs, output_path, metrics_map, glyph_map, page, children_read,
                    glyph_refs, effects >>

\* the image is saved while a run is being composited
SavePage_Early ==
    /\ pc \in {"children", "glyphs"}
    /\ effects' = effects \cup {"output_dir_created", "page_image_written"}
    /\ output_path' = PageFileName(page_index)
    /\ pc' = "done"
    /\ UNCHANGED << lib_vars, inputs, error, metrics_map, glyph_map, page, canvas,
                    glyph_cache, children_read, glyph_refs, run, gi, raster_log >>

\* the page has no further child: the loop of line 108 ends, lines 149-152
SavePage ==
    /\ pc = "children"
    /\ effects' = effects \cup {"output_dir_created", "page_image_written"}
    /\ output_path' = PageFileName(page_index)
    /\ pc' = "done"
    /\ UNCHANGED << lib_vars, inputs, error, metrics_map, glyph_map, page, canvas,
                    glyph_cache, children_read, glyph_refs, run, gi, raster_log >>

Next ==
    \/ CheckFiles
    \/ LoadFonts
    \/ ReadPage
    \/ CheckDims
    \/ FetchChild
    \/ RunHead
    \/ GlyphStep
    \/ SavePage

Spec == Init /\ [][Next]_vars

\* the renders of the first page of a book whose two payload files exist
\* and whose fonts have the outlines that parse
InitFirstPage ==
    /\ Init
    /\ glyphs_exists
    /\ page_data_exists
    /\ fonts_data = SoundFonts
    /\ num_pages = MaxPages
    /\ page_index = 0

SpecFirstPage == InitFirstPage /\ [][Next]_vars

(* ---------------- a font entry through extract_glyphs.py ---------------- *)
\* the render is not running
RenderIdle ==
    /\ glyphs_exists = FALSE
    /\ page_data_exists = FALSE
    /\ fonts_data = EmptyMap
    /\ num_pages = 0
    /\ page_index = 0
    /\ pc = "idle"
    /\ error = ""
    /\ metrics_map = EmptyMap
    /\ glyph_map = EmptyMap
    /\ page = NoPage
    /\ canvas = <<>>
    /\ glyph_cache = EmptyMap
    /\ children_read = 0
    /\ glyph_refs = 0
    /\ run = NoRun
    /\ gi = 0
    /\ raster_log = <<>>
    /\ effects = {}
    /\ output_path = <<>>

\* the glyph payloads of a font entry, its "height" values, and the font
\* sizes a glyph is rasterized at (in 1/FsDen)
GlyphPayloads == { PSq, PDesc, PBad, PNoBBox, PEmpty, PText, PDot, PFlat, PNegAdv }
Heights == { <<>>, <<0>>, <<-5>>, <<20>> }
FontSizes == { -70000, 0, 69996, 200000 }
GlyphNames == << "g1", "g2", "g3", "g4" >>
FontEntries ==
    { [ fontKey |-> "F1", height |-> h, glyphs |-> gl ] :
        h \in Heights,
        gl \in UNION { [ { GlyphNames[i] : i \in 1..k } -> GlyphPayloads ] :
                         k \in 0..MaxEntryGlyphs } }

InitFonts ==
    /\ RenderIdle
    /\ ReplayIdle
    /\ font_entry \in FontEntries
    /\ lib_pc = "entry"
    /\ entry_metrics = <<>>
    /\ entry_specs = EmptyMap
    /\ glyph_image = NoImage

\* metrics = build_font_metrics(font_entry)
BuildFontMetrics ==
    /\ lib_pc = "entry"
    /\ entry_metrics' = build_font_metrics(font_entry)
    /\ lib_pc' = "metrics"
    /\ UNCHANGED << render_vars, replay_vars, font_entry, entry_specs, glyph_image >>

\* the GlyphSpecs iter_glyph_specs(font_entry) yields
IterGlyphSpecs ==
    /\ lib_pc = "metrics"
    /\ entry_specs' = iter_glyph_specs(font_entry)
    /\ lib_pc' = "glyphs"
    /\ UNCHANGED << render_vars, replay_vars, font_entry, entry_metrics, glyph_image >>

\* rasterize_glyph(spec, metrics, font_size) on a glyph of the catalog
RasterizeGlyph ==
    /\ lib_pc = "glyphs"
    /\ entry_metrics # <<>>
    /\ \E g \in DOMAIN entry_specs, fs \in FontSizes :
         glyph_image' =
            IF RasterizeRaises(entry_specs[g])
            THEN [ fn |-> "rasterize_glyph", glyph_id |-> g, raised |-> TRUE ]
            ELSE [ fn |-> "rasterize_glyph", glyph_id |-> g, raised |-> FALSE,
                   font_size |-> fs,
                   render |-> rasterize_glyph(entry_specs[g], entry_metrics[1], fs) ]
    /\ UNCHANGED << render_vars, replay_vars, font_entry, lib_pc, entry_metrics, entry_specs >>

\* render_glyph(glyph, metrics, output_dir) on a glyph of the catalog
RenderGlyph ==
    /\ lib_pc = "glyphs"
    /\ entry_metrics # <<>>
    /\ \E g \in DOMAIN entry_specs :
         glyph_image' =
            IF RasterizeRaises(entry_specs[g])
            THEN [ fn |-> "render_glyph", glyph_id |-> g, raised |-> TRUE ]
            ELSE [ fn |-> "render_glyph", glyph_id |-> g, raised |-> FALSE,
                   metadata |-> render_glyph(entry_specs[g], entry_metrics[1]) ]
    /\ UNCHANGED << render_vars, replay_vars, font_entry, lib_pc, entry_metrics, entry_specs >>

NextFonts ==
    \/ BuildFontMetrics
    \/ IterGlyphSpecs
    \/ RasterizeGlyph
    \/ RenderGlyph

SpecFonts == InitFonts /\ [][NextFonts]_vars

(* ---------------- kindle-api/scripts/set_reading_position.py ---------------- *)
\* the captured file, by what the script finds in it:
\*   xml   "none"          no XML payload in the file
\*         "malformed"     a block up to </annotations> that is no XML
\*         "no_book"       annotations without a book element
\*         "no_last_read"  a book without a last_read element
\*         "ok"            annotations, book and last_read
\*   guid  the guid attribute of the book: absent, empty or a value
\*   has_url  the file holds an http(s) URL
Captures ==
    [ xml : {"none", "malformed", "no_book", "no_last_read", "ok"},
      guid : { <<>>, <<"">>, <<"G1">> },
      has_url : BOOLEAN ]
\* argparse: --dry-run, --url, --pos, --timestamp
ArgSets ==
    [ dry_run : BOOLEAN,
      url : { <<>>, <<"https://u">> },
      pos : { <<>>, <<"42">> },
      timestamp : { <<>>, <<"T1">> } ]
\* what one run of curl ends with: a return code, or <<>> when the user
\* interrupts it
CurlOutcomes == { <<0>>, <<7>>, <<>> }

\* find_xml_block: <<>> for None
find_xml_block(r) == IF r.xml = "none" THEN <<>> ELSE << r.xml >>
\* parse_last_read: ET.fromstring raises on a block that is no XML
ParseRaises(xml_block) == xml_block = "malformed"
\* parse_last_read: <<>> for None, else the dict (pos and the timestamps as
\* captured)
parse_last_read(xml_block, r) ==
    IF xml_block \in {"no_book", "no_last_read"} THEN <<>>
    ELSE << [ guid |-> r.guid, pos |-> <<"7">>, last_read_ts |-> <<"T0">> ] >>
\* set_values_and_serialize: the payload with pos and timestamp replaced
\* where the command line gives them
set_values_and_serialize(p, new_pos, new_ts) ==
    [ kind |-> "set_position",
      guid |-> p.guid,
      pos |-> IF new_pos # <<>> THEN new_pos ELSE p.pos,
      timestamp |-> IF new_ts # <<>> THEN new_ts ELSE p.last_read_ts ]
\* the follow-up payload, line 233
annotations_xml(guid) == [ kind |-> "get_annotations", guid |-> guid ]
\* build_curl_command(url, headers, data_file_path): data_file is the index
\* of the payload file in temp_files
build_curl_command(u, data_file) == [ url |-> u, data_file |-> data_file ]
\* if guid: neither None nor empty
Truthy(guid) == guid # <<>> /\ guid # <<"">>

InitReplay ==
    /\ RenderIdle
    /\ FontsIdle
    /\ args \in ArgSets
    /\ raw \in Captures
    /\ curl_installed \in BOOLEAN
    /\ script_pc = "start"
    /\ exit_code = <<>>
    /\ parsed = <<>>
    /\ url = ""
    /\ temp_files = <<>>
    /\ curl_cmd = <<>>
    /\ curl_runs = <<>>

\* sys.exit(status), or the end of main
Exit(status) ==
    /\ script_pc' = "exited"
    /\ exit_code' = << status >>

\* lines 162-167
ReadInput ==
    /\ script_pc = "start"
    /\ IF find_xml_block(raw) = <<>>
       THEN Exit(2)
       ELSE script_pc' = "parse" /\ exit_code' = exit_code
    /\ UNCHANGED << render_vars, fonts_vars, args, raw, curl_installed, parsed, url,
                    temp_files, curl_cmd, curl_runs >>

\* lines 169-174; an exception out of parse_last_read ends the script with
\* status 1
ParseLastRead ==
    /\ script_pc = "parse"
    /\ LET xml_block == find_xml_block(raw)[1]
       IN  IF ParseRaises(xml_block)
           THEN Exit(1) /\ parsed' = parsed
           ELSE IF parse_last_read(xml_block, raw) = <<>>
           THEN Exit(3) /\ parsed' = parsed
           ELSE /\ parsed' = parse_last_read(xml_block, raw)
                /\ script_pc' = "url"
                /\ exit_code' = exit_code
    /\ UNCHANGED << render_vars, fonts_vars, args, raw, curl_installed, url,
                    temp_files, curl_cmd, curl_runs >>

\* lines 176-197
ChooseUrl ==
    /\ script_pc = "url"
    /\ url' = IF args.url # <<>> THEN args.url[1]
              ELSE IF raw.has_url THEN "https://captured"
              ELSE "https://cde-ta-g7g.amazon.com/FionaCDEServiceEngine/sidecar"
    /\ script_pc' = "prepare"
    /\ UNCHANGED << render_vars, fonts_vars, args, raw, curl_installed, exit_code,
                    parsed, temp_files, curl_cmd, curl_runs >>

\* --dry-run is not looked at
Prepare_IgnoreDryRun ==
    /\ script_pc = "prepare"
    /\ temp_files' = Append(temp_files,
                            set_values_and_serialize(parsed[1], args.pos, args.timestamp))
    /\ curl_cmd' = << build_curl_command(url, Len(temp_files) + 1) >>
    /\ script_pc' = "run_curl"
    /\ exit_code' = exit_code
    /\ UNCHANGED << render_vars, fonts_vars, args, raw, curl_installed, parsed, url,
                    curl_runs >>

\* lines 199-215: the payload file, the command, and the exit of a dry run
Prepare ==
    /\ script_pc = "prepare"
    /\ temp_files' = Append(temp_files,
                            set_values_and_serialize(parsed[1], args.pos, args.timestamp))
    /\ curl_cmd' = << build_curl_command(url, Len(temp_files) + 1) >>
    /\ IF args.dry_run
       THEN Exit(0)
       ELSE script_pc' = "run_curl" /\ exit_code' = exit_code
    /\ UNCHANGED << render_vars, fonts_vars, args, raw, curl_installed, parsed, url,
                    curl_runs >>

\* lines 218-222: subprocess.run(curl_cmd); it raises when curl cannot be
\* started, and the user may interrupt it
RunCurl ==
    /\ script_pc = "run_curl"
    /\ IF ~curl_installed
       THEN /\ curl_runs' = curl_runs
            /\ script_pc' = "finally"
       ELSE \E rc \in CurlOutcomes :
                /\ curl_runs' = Append(curl_runs,
                                       [ cmd |-> curl_cmd[1], returncode |-> rc ])
                /\ script_pc' = IF rc = <<>> THEN "finally" ELSE "follow_up"
    /\ UNCHANGED << render_vars, fonts_vars, args, raw, curl_installed, exit_code,
                    parsed, url, temp_files, curl_cmd >>

\* lines 225-258: after a return code of 0 and with a guid, the payload file
\* and the run of the get_annotations request
FollowUp ==
    /\ script_pc = "follow_up"
    /\ LET proc == curl_runs[Len(curl_runs)]
           guid == parsed[1].guid
       IN  IF proc.returncode = <<0>> /\ Truthy(guid)
           THEN /\ temp_files' = Append(temp_files, annotations_xml(guid[1]))
                /\ \E rc \in CurlOutcomes :
                     curl_runs' = Append(curl_runs,
                         [ cmd |-> build_curl_command(url, Len(temp_files) + 1),
                           returncode |-> rc ])
           ELSE UNCHANGED << temp_files, curl_runs >>
    /\ script_pc' = "finally"
    /\ UNCHANGED << render_vars, fonts_vars, args, raw, curl_installed, exit_code,
                    parsed, url, curl_cmd >>

\* lines 260-266: the handlers and the finally clause; main returns
Finally ==
    /\ script_pc = "finally"
    /\ Exit(0)
    /\ UNCHANGED << render_vars, fonts_vars, args, raw, curl_installed, parsed, url,
                    temp_files, curl_cmd, curl_runs >>

NextReplay ==
    \/ ReadInput
    \/ ParseLastRead
    \/ ChooseUrl
    \/ Prepare
    \/ RunCurl
    \/ FollowUp
    \/ Finally

SpecReplay == InitReplay /\ [][NextReplay]_vars

(* ======================= claims ======================= *)
Started == pc # "start"
PastDims == pc \notin {"start", "load_fonts", "read_page", "check_dims"}
SameKey(a, b) ==
    /\ a.font_key = b.font_key
    /\ a.glyph_id = b.glyph_id
    /\ Round3(a.font_size) = Round3(b.font_size)

\* C1: within one render_page invocation rasterize_glyph is invoked at most
\* once per (font_key, glyph_id, round(font_size, 3)), and every use of a key
\* is given the one GlyphRender stored for it.
C1_RasterizeOncePerKey ==
    /\ \A i \in DOMAIN raster_log : \A j \in (i + 1)..Len(raster_log) :
          ~SameKey(raster_log[i], raster_log[j])
    /\ \A i \in DOMAIN canvas : \A j \in (i + 1)..Len(canvas) :
          SameKey(canvas[i], canvas[j]) => canvas[i].render = canvas[j].render
    /\ \A i \in DOMAIN canvas :
          LET k == <<canvas[i].font_key, canvas[i].glyph_id, Round3(canvas[i].font_size)>>
          IN  k \in DOMAIN glyph_cache /\ glyph_cache[k] = canvas[i].render

\* a key used by two runs at font sizes that differ below the third decimal,
\* rasterized once
C1_Witness ==
    \E i, j \in DOMAIN canvas :
        /\ i < j
        /\ SameKey(canvas[i], canvas[j])
        /\ canvas[i].font_size # canvas[j].font_size
        /\ Cardinality({ n \in DOMAIN raster_log : SameKey(raster_log[n], canvas[i]) }) = 1

\* C2: for every page_index outside 0..len(page_data)-1, too large or
\* negative, render_page fails with an out-of-range error and selects no page.
C2_OutOfRangeFails ==
    ("page_data_read" \in effects /\ page_index \notin 0..(num_pages - 1)) =>
        /\ pc = "failed"
        /\ error = "IndexError"
        /\ ~page.read

\* C3: a page whose rounded width or height is <= 0 (a missing one counts as 0)
\* makes render_page fail with an invalid-page error before a canvas is
\* allocated, a glyph rasterized or an image written.
C3_InvalidDimsFail ==
    (PastDims /\ page.read /\ (PageDim(page.width) <= 0 \/ PageDim(page.height) <= 0)) =>
        /\ pc = "failed"
        /\ error = "ValueError"
        /\ "canvas_allocated" \notin effects
        /\ "page_image_written" \notin effects
        /\ raster_log = <<>>
        /\ canvas = <<>>

\* a width of 0.5 rounds to 0 and fails the page whose height is valid
C3_Witness ==
    /\ error = "ValueError"
    /\ page.read
    /\ page.width = <<1>>
    /\ page.height = <<100>>

\* C4: with glyphs.json or the page-data file absent, render_page fails with a
\* not-found error, once, before a font is loaded or a page is read.
C4_MissingFileFails ==
    (Started /\ (~glyphs_exists \/ ~page_data_exists)) =>
        /\ pc = "failed"
        /\ error = "FileNotFoundError"
        /\ effects = {}
        /\ metrics_map = EmptyMap
        /\ glyph_map = EmptyMap
        /\ ~page.read

\* the fonts are there and the page data is not
C4_Witness ==
    /\ pc = "failed"
    /\ error = "FileNotFoundError"
    /\ glyphs_exists
    /\ ~page_data_exists

\* C5: a path glyph whose outline does not parse, or has no bounding box, is
\* not in the catalog load_fonts builds, and no page render fails on one.
C5_UnparsableDropped ==
    /\ \A fk \in DOMAIN glyph_map : \A g \in DOMAIN glyph_map[fk] :
          /\ ParseOk(glyph_map[fk][g].path_data)
          /\ BBoxOk(glyph_map[fk][g].path_data)
    /\ error # "RasterizeError"

\* a font entry none of whose path glyphs yields a bounding box
NoBBoxGlyph(entry) ==
    \A g \in DOMAIN entry.glyphs :
        LET gl == entry.glyphs[g]
        IN  ~(gl.type = "path" /\ gl.path \in {"sq", "desc"})

\* the child at hand is a run whose fontKey names no font of the metrics map
AtRunOfUnknownFont ==
    /\ pc = "run_head"
    /\ run.child.type = "run"
    /\ \/ run.child.fontKey = <<>>
       \/ run.child.fontKey[1] \notin DOMAIN metrics_map

\* C6: a font none of whose path glyphs yields a bounding box is in neither
\* map load_fonts returns, and a run whose fontKey is not in the metrics map is
\* passed over: no rasterization, no cache entry, no paste, no error.
C6_UnusableFontSkipped ==
    [][ /\ \A k \in DOMAIN fonts_data :
              NoBBoxGlyph(fonts_data[k]) =>
                  /\ fonts_data[k].fontKey \notin DOMAIN metrics_map'
                  /\ fonts_data[k].fontKey \notin DOMAIN glyph_map'
        /\ AtRunOfUnknownFont =>
              /\ pc' = "children"
              /\ error' = ""
              /\ UNCHANGED << canvas, glyph_cache, raster_log >> ]_vars

\* a run of the unusable font F3, with glyphs and x-positions, after a run
\* that was composited
C6_Witness ==
    /\ AtRunOfUnknownFont
    /\ run.child.fontKey = <<"F3">>
    /\ run.child.glyphs # <<>>
    /\ run.child.xPosition # <<>>
    /\ "F3" \in { fonts_data[k].fontKey : k \in DOMAIN fonts_data }
    /\ canvas # <<>>

\* the glyph ids of the run at hand that are in its font's catalog
InCatalog(g) == g \in DOMAIN glyph_map[run.font_key]

\* C7: when a run references a glyph id absent from its font's catalog only
\* that glyph is skipped: the run's other glyphs, those in the catalog, are
\* pasted, each at the x-position of its own index, and the render does not
\* raise.
C7_MissingGlyphTolerated ==
    (/\ run.type = "run"
     /\ \E i \in DOMAIN run.glyphs : ~InCatalog(run.glyphs[i])) =>
        /\ error = ""
        /\ \A i \in 1..(gi - 1) :
              InCatalog(run.glyphs[i]) <=>
                  \E n \in DOMAIN canvas :
                      /\ canvas[n].child_no = children_read
                      /\ canvas[n].idx = i
                      /\ canvas[n].glyph_id = run.glyphs[i]
                      /\ canvas[n].left =
                            PyRound(run.x_offset + run.child.xPosition[
                                        Min(i, Len(run.child.xPosition))], PxDen)

\* C8: a run with 0 < len(xPosition) < len(glyphs) is composited with
\* len(glyphs) x-positions: the original ones, then copies of the last.
C8_PaddedPositions ==
    (/\ run.type = "run"
     /\ Len(run.child.xPosition) < Len(run.child.glyphs)) =>
        LET xs == run.child.xPosition
        IN  /\ Len(run.x_positions) = Len(run.child.glyphs)
            /\ ZipLen(run) = Len(run.child.glyphs)
            /\ \A i \in 1..Len(xs) : run.x_positions[i] = xs[i]
            /\ \A i \in (Len(xs) + 1)..Len(run.x_positions) :
                  run.x_positions[i] = xs[Len(xs)]
            /\ \A n \in DOMAIN canvas :
                  canvas[n].child_no = children_read =>
                      canvas[n].left =
                          PyRound(run.x_offset + xs[Min(canvas[n].idx, Len(xs))], PxDen)

\* three glyphs on two x-positions: the third glyph is at hand and the second
\* was pasted
C8_Witness ==
    /\ run.type = "run"
    /\ Len(run.child.xPosition) = 2
    /\ Len(run.child.glyphs) = 3
    /\ gi = 3
    /\ \E n \in DOMAIN canvas : canvas[n].child_no = children_read /\ canvas[n].idx = 2

\* C9: the font size a run is rasterized at is its fontSize when that is
\* given and positive, and else the font's height_px.
C9_FontSizeFallback ==
    run.type = "run" =>
        run.font_size =
            IF run.child.fontSize # <<>> /\ run.child.fontSize[1] > 0
            THEN run.child.fontSize[1]
            ELSE metrics_map[run.font_key].height_px * FsDen

\* C10: glyphs of one font rendered at one font size share baseline_px, so
\* all glyphs pasted by one run have the same top.
C10_SharedBaseline ==
    \A i, j \in DOMAIN canvas :
        canvas[i].child_no = canvas[j].child_no =>
            /\ canvas[i].render.baseline_px = canvas[j].render.baseline_px
            /\ canvas[i].top = canvas[j].top

\* C10 as amended: glyphs of one font whose renders were rasterized at one
\* font size share baseline_px whatever their own vertical extent, and within
\* a run they are pasted at the same top.
C10_SharedBaselineSameSize ==
    /\ \A k1, k2 \in DOMAIN glyph_cache :
          (k1[1] = k2[1] /\ glyph_cache[k1].font_size = glyph_cache[k2].font_size) =>
              glyph_cache[k1].baseline_px = glyph_cache[k2].baseline_px
    /\ \A i \in DOMAIN canvas : \A j \in (i + 1)..Len(canvas) :
          (/\ canvas[i].font_key = canvas[j].font_key
           /\ canvas[i].render.font_size = canvas[j].render.font_size) =>
              /\ canvas[i].render.baseline_px = canvas[j].render.baseline_px
              /\ canvas[i].child_no = canvas[j].child_no =>
                    canvas[i].top = canvas[j].top

\* one run pasted the square and the outline with a descender of F1, both
\* rasterized at the run's font size, on a baseline below the canvas top
C10_Witness ==
    \E i, j \in DOMAIN canvas :
        /\ canvas[i].child_no = canvas[j].child_no
        /\ canvas[i].font_key = "F1"
        /\ canvas[i].glyph_id = "g1"
        /\ canvas[j].glyph_id = "g2"
        /\ canvas[i].render.font_size = canvas[j].render.font_size
        /\ canvas[i].render.baseline_px[1] > 0
        /\ canvas[i].top = canvas[j].top

\* C11: every FontMetrics build_font_metrics returns (the entry has a path
\* glyph with a bounding box) has unit_height = max_y - min_y >= 0; when
\* unit_height > 0 the scale height_px / unit_height is positive whatever the
\* payload height (positive, missing, zero, negative); when unit_height = 0
\* the scale is 1.
C11_ScalePositive ==
    lib_pc # "entry" =>
        /\ (entry_metrics # <<>>) <=> (MetricIds(font_entry) # {})
        /\ entry_metrics # <<>> =>
              LET m == entry_metrics[1]
              IN  /\ unit_height(m) = m.max_y - m.min_y
                  /\ unit_height(m) >= 0
                  /\ unit_height(m) > 0 =>
                        /\ scale(m)[1] > 0
                        /\ scale(m)[2] > 0
                        /\ scale(m) = <<m.height_px, unit_height(m)>>
                  /\ unit_height(m) = 0 => scale(m) = <<1, 1>>

\* metrics of positive unit height were built from an entry whose payload
\* height is negative: height_px is the unit height and the scale is 1
C11_Witness ==
    /\ lib_pc # "entry"
    /\ entry_metrics # <<>>
    /\ font_entry.height = <<-5>>
    /\ unit_height(entry_metrics[1]) > 0
    /\ scale(entry_metrics[1])[1] = scale(entry_metrics[1])[2]

\* C12: whatever glyph, metrics and font size rasterize_glyph is given (an
\* outline of no area, an advance width of 0, a unit height of 0, a font size
\* of 0 or below), the canvas width and height in pixels are both >= 1; so
\* are those of render_glyph.
C12_CanvasAtLeastOnePixel ==
    (glyph_image # NoImage /\ ~glyph_image.raised) =>
        IF glyph_image.fn = "rasterize_glyph"
        THEN /\ glyph_image.render.image.width_px >= 1
             /\ glyph_image.render.image.height_px >= 1
        ELSE /\ glyph_image.metadata.canvas_width_px >= 1
             /\ glyph_image.metadata.canvas_height_px >= 1

\* the outline of no area, of advance width 0, in a font of unit height 0,
\* rasterized at a negative font size
C12_Witness ==
    /\ glyph_image # NoImage
    /\ glyph_image.fn = "rasterize_glyph"
    /\ ~glyph_image.raised
    /\ glyph_image.font_size < 0
    /\ entry_specs[glyph_image.glyph_id].path_data = "dot"
    /\ entry_specs[glyph_image.glyph_id].advance_width = 0
    /\ unit_height(entry_metrics[1]) = 0
    /\ glyph_image.render.image.height_px = 1

\* C13: every GlyphSpec of a catalog built from a font payload has
\* advance_width >= 0, and 0 when the payload gives no advanceWidth.
C13_AdvanceNonNegative ==
    \A g \in DOMAIN entry_specs :
        /\ entry_specs[g].advance_width >= 0
        /\ font_entry.glyphs[g].advanceWidth = <<>> => entry_specs[g].advance_width = 0

\* the columns and rows of the page canvas under a paste
PasteCols(paste) ==
    Max(paste.left, 0)..
        (Min(paste.left + paste.render.image.width_px, PageDim(page.width)) - 1)
PasteRows(paste) ==
    Max(paste.top, 0)..
        (Min(paste.top + paste.render.image.height_px, PageDim(page.height)) - 1)
Inked(paste, x, y) == ImageAt(paste.render.image, x - paste.left, y - paste.top) = 0
\* the columns and rows of the page canvas under two pastes
OverlapCols(a, b) ==
    Max(Max(a.left, b.left), 0)..
        (Min(Min(a.left + a.render.image.width_px, b.left + b.render.image.width_px),
             PageDim(page.width)) - 1)
OverlapRows(a, b) ==
    Max(Max(a.top, b.top), 0)..
        (Min(Min(a.top + a.render.image.height_px, b.top + b.render.image.height_px),
             PageDim(page.height)) - 1)
\* a paste has just been made
JustPasted == canvas # <<>> /\ (pc = "children" \/ (pc = "glyphs" /\ gi > 1))

\* C14: the pastes of a page are made in source order, runs in the order of
\* the page's children and glyphs in the order of the run's glyph list, and
\* after a paste every pixel where the glyph just pasted overlaps an earlier
\* one and is inked has a fully opaque mask and holds that glyph's value,
\* whatever was pasted there before.
C14_LastDrawnWins ==
    /\ \A i \in DOMAIN canvas : \A j \in (i + 1)..Len(canvas) :
          \/ canvas[i].child_no < canvas[j].child_no
          \/ canvas[i].child_no = canvas[j].child_no /\ canvas[i].idx < canvas[j].idx
    /\ JustPasted =>
          LET last == canvas[Len(canvas)]
          IN  \A n \in 1..(Len(canvas) - 1) :
                  \A x \in OverlapCols(canvas[n], last) :
                      \A y \in OverlapRows(canvas[n], last) :
                          LET v == ImageAt(last.render.image, x - last.left, y - last.top)
                          IN  v = 0 =>
                                /\ Invert(v) = 255
                                /\ CanvasAt(canvas, Len(canvas), x, y) = v

\* the last paste overlaps an earlier one: it inked a pixel the earlier one
\* left white, and left alone a pixel the earlier one inked
C14_Witness ==
    /\ JustPasted
    /\ Len(canvas) >= 2
    /\ LET last == canvas[Len(canvas)]
           prev == canvas[Len(canvas) - 1]
       IN  /\ \E x \in PasteCols(last), y \in PasteRows(last) :
                 /\ Covers(prev, x, y)
                 /\ Inked(last, x, y)
                 /\ CanvasAt(canvas, Len(canvas) - 1, x, y) = 255
                 /\ CanvasAt(canvas, Len(canvas), x, y) = 0
           /\ \E x \in PasteCols(last), y \in PasteRows(last) :
                 /\ Inked(prev, x, y)
                 /\ ~Inked(last, x, y)
                 /\ MaskAt(last.render, x - last.left, y - last.top) = 0
                 /\ CanvasAt(canvas, Len(canvas), x, y) = 0

\* the call failed before the page canvas was allocated
FailedBeforeCanvas == pc = "failed" /\ "canvas_allocated" \notin effects

\* C15: a missing payload file, a page index out of range and page dimensions
\* that are not positive are reported as three different kinds of error; a
\* call that fails on them reports exactly one, that of the first condition
\* met, and the failure is final: nothing is tried again.
C15_DistinctFatalKinds ==
    /\ (error # "") <=> (pc = "failed")
    /\ pc = "failed" => ~ENABLED Next
    /\ FailedBeforeCanvas =>
          /\ error \in {"FileNotFoundError", "IndexError", "ValueError"}
          /\ (error = "FileNotFoundError") <=> (~glyphs_exists \/ ~page_data_exists)
          /\ (error = "IndexError") <=>
                (/\ glyphs_exists /\ page_data_exists
                 /\ page_index \notin 0..(num_pages - 1)
                 /\ ~page.read)
          /\ (error = "ValueError") <=>
                (/\ glyphs_exists /\ page_data_exists
                 /\ page.read
                 /\ (PageDim(page.width) <= 0 \/ PageDim(page.height) <= 0))

\* the page data is missing and the index is past the end: the call reports
\* the missing file alone
C15_Witness ==
    /\ pc = "failed"
    /\ ~page_data_exists
    /\ page_index >= num_pages
    /\ error = "FileNotFoundError"
    /\ effects = {}

\* every cache entry is the GlyphRender of its key's glyph, rasterized at a
\* font size that rounds to its key's size
CacheSound ==
    \A k \in DOMAIN glyph_cache :
        LET r == glyph_cache[k]
        IN  /\ k[1] \in DOMAIN glyph_map
            /\ k[2] \in DOMAIN glyph_map[k[1]]
            /\ Round3(r.font_size) = k[3]
            /\ r = rasterize_glyph(glyph_map[k[1]][k[2]], metrics_map[k[1]], r.font_size)

\* C16: at every point of a page render the cache entry under (f, g, s) is
\* the GlyphRender rasterized from the GlyphSpec of glyph g of font f at a
\* font size whose rounding to 3 decimals is s, and an entry, once inserted,
\* is neither replaced nor removed.  The cache is empty until the fonts are
\* loaded, the font maps do not change afterwards, and every step that
\* changes the cache leaves each entry of it as described.
C16_CacheEntriesStable ==
    [][ /\ pc \in {"start", "load_fonts"} => glyph_cache = EmptyMap
        /\ pc \notin {"start", "load_fonts"} => UNCHANGED << glyph_map, metrics_map >>
        /\ glyph_cache' # glyph_cache => CacheSound'
        /\ \A k \in DOMAIN glyph_cache :
              /\ k \in DOMAIN glyph_cache'
              /\ glyph_cache'[k] = glyph_cache[k] ]_vars

\* two entries, one of them rasterized at 6.9996 under the key size 7.0 and
\* used again by a run of font size 7.0
C16_Witness ==
    /\ Cardinality(DOMAIN glyph_cache) >= 2
    /\ \E k \in DOMAIN glyph_cache :
          /\ glyph_cache[k].font_size = 69996
          /\ k[3] = 70000
          /\ \E n \in DOMAIN canvas :
                /\ canvas[n].font_size = 70000
                /\ canvas[n].render = glyph_cache[k]

\* the child at hand is a run without glyphs or without x-positions
AtEmptyRun ==
    /\ pc = "run_head"
    /\ run.child.type = "run"
    /\ (run.child.glyphs = <<>> \/ run.child.xPosition = <<>>)

\* C17: a run whose glyph list or xPosition list is empty is passed over: the
\* canvas and the glyph cache are as before, nothing is rasterized, no error
\* is raised, and the loop goes on to the next child.
C17_EmptyRunSkipped ==
    [][ AtEmptyRun =>
          /\ pc' = "children"
          /\ error' = ""
          /\ children_read' = children_read
          /\ UNCHANGED << canvas, glyph_cache, raster_log >> ]_vars

\* a run of the usable font F1 with an x-position and no glyph, after a run
\* that was composited
C17_Witness ==
    /\ AtEmptyRun
    /\ run.child.fontKey = <<"F1">>
    /\ "F1" \in DOMAIN metrics_map
    /\ run.child.glyphs = <<>>
    /\ run.child.xPosition # <<>>
    /\ canvas # <<>>
    /\ glyph_cache # EmptyMap

\* the number a sequence of decimal digits writes
RECURSIVE DigitsValue(_)
DigitsValue(ds) ==
    IF ds = <<>> THEN 0
    ELSE 10 * DigitsValue(SubSeq(ds, 1, Len(ds) - 1)) +
         (CHOOSE d \in 0..9 : DigitChars[d + 1] = ds[Len(ds)])

\* C19: a render_page call that fails (missing file, index out of range,
\* invalid dimensions, a glyph that does not rasterize) has not created the
\* output directory and has written no page image; the image file, named
\* page_<index padded with zeros to 4 digits>.png, is written only once no
\* child of the page is left to composite.
C19_NoOutputOnFailure ==
    /\ pc = "failed" =>
          /\ "output_dir_created" \notin effects
          /\ "page_image_written" \notin effects
          /\ output_path = <<>>
    /\ (\/ "output_dir_created" \in effects
        \/ "page_image_written" \in effects
        \/ output_path # <<>>) =>
          /\ pc = "done"
          /\ error = ""
          /\ run = NoRun
          /\ "canvas_allocated" \in effects
          /\ output_path = << "page_" >> \o Format04d(page_index) \o << ".png" >>
          /\ page_index >= 0 =>
                /\ Len(Format04d(page_index)) = 4
                /\ DigitsValue(Format04d(page_index)) = page_index

\* a run pasted a glyph and its next glyph did not rasterize: the call failed
\* with the canvas drawn on and nothing written
C19_Witness ==
    /\ pc = "failed"
    /\ error = "RasterizeError"
    /\ canvas # <<>>
    /\ "canvas_allocated" \in effects
    /\ "output_dir_created" \notin effects
    /\ output_path = <<>>

\* the curl runs that sent the set-position payload, and the follow-up one
RunsOf(kind) ==
    { n \in DOMAIN curl_runs : temp_files[curl_runs[n].cmd.data_file].kind = kind }
\* a get_annotations request is run at most once, after a set-position run
\* that returned 0, and with a guid from the payload
FollowUpInOrder ==
    /\ Cardinality(RunsOf("get_annotations")) <= 1
    /\ \A n \in RunsOf("get_annotations") :
          /\ \E m \in RunsOf("set_position") :
                m < n /\ curl_runs[m].returncode = <<0>>
          /\ parsed # <<>>
          /\ Truthy(parsed[1].guid)
          /\ temp_files[curl_runs[n].cmd.data_file].guid = parsed[1].guid[1]

\* C18: with --dry-run the replay script runs no curl request; without it,
\* the set-position request is run exactly once, and the get_annotations
\* request is run only after the set-position curl returned 0 and a guid was
\* parsed from the payload, and at most once.
C18_ReplayRequests ==
    /\ args.dry_run => curl_runs = <<>>
    /\ (~args.dry_run /\ script_pc = "exited") =>
          Cardinality(RunsOf("set_position")) = 1
    /\ FollowUpInOrder

\* C18 as amended: without --dry-run the set-position request is run at most
\* once, and exactly once by the time the script ends when the payload was
\* found and parsed and curl could be started; else it is not run at all.
C18_ReplayRequestsWhenPrepared ==
    /\ args.dry_run => curl_runs = <<>>
    /\ Cardinality(RunsOf("set_position")) <= 1
    /\ (~args.dry_run /\ script_pc = "exited") =>
          Cardinality(RunsOf("set_position")) =
              IF parsed # <<>> /\ curl_installed THEN 1 ELSE 0
    /\ FollowUpInOrder

\* the script ended after the set-position request returned 0 and the
\* get_annotations request was run with the guid of the payload
C18_Witness ==
    /\ script_pc = "exited"
    /\ ~args.dry_run
    /\ Len(curl_runs) = 2
    /\ curl_runs[1].returncode = <<0>>
    /\ RunsOf("set_position") = {1}
    /\ RunsOf("get_annotations") = {2}
    /\ parsed[1].guid = <<"G1">>

====
